---- MODULE Spec2Model ----
(***************************************************************************)
(* Two-tier persistence of the wafer labeling manager                      *)
(* (src/outer_layer_manager.py): the global index store wafer_metadata     *)
(* and one detail store database.db per wafer folder, driven by            *)
(* load_wafer_folders, sync_wafer_progress, save_label, get_wafer_data,    *)
(* reset_wafer_status and enter_inner_layer.                               *)
(*                                                                         *)
(* Paths are sequences of components, a report is its lines, a detail      *)
(* store is absent, a zero-byte file, or a defect_info table with its      *)
(* column list and its rows in rowid order.  Timestamps (last_operated,    *)
(* create_time, label_time) and the coordinates center_x/center_y are      *)
(* carried by no decision of the code and are left out.  The operations    *)
(* are atomic steps; the server that runs them for its connections is      *)
(* modelled statement by statement in SpecServer.                          *)
(***************************************************************************)
EXTENDS Integers, Sequences, FiniteSets, TLC

VARIABLES raw_data, images, database, index, last, env_steps, handlers

vars == <<raw_data, images, database, index, last, env_steps, handlers>>

(***************************************************************************)
(* Bounds of the model.                                                    *)
(***************************************************************************)
\* number of changes the environment makes to the files of the folders
MaxEnvSteps == 1
\* number of defect rows the fixture generator writes into a fresh report
InitDefects == 2
\* a defect is labeled at most this many times (label_count has no bound)
MaxLabelCount == 2
\* defect counts for which progress and status are derived: every count up to
\* MaxTotal, and one large count
MaxTotal == 12
BigTotal == 20001

(***************************************************************************)
(* SQL values.                                                             *)
(***************************************************************************)
NULL_INT == -1
NULL_TEXT == "<NULL>"

\* wafer_metadata.parsed_status and label_status codes
UNPARSED == 0
PARSED == 1
PARSE_ERROR == 2
NOT_STARTED == 0
IN_PROGRESS == 1
COMPLETE == 2

(***************************************************************************)
(* Paths: os.path.join, os.path.basename, and the folder a path denotes.   *)
(***************************************************************************)
join(a, b) == a \o b

basename(path) == path[Len(path)]

\* the directory a path string denotes: "." components do not change it
FolderOf(path) == SelectSeq(path, LAMBDA c : c # ".")

\* ways the caller writes the root directory, and the wafer folders below it
Roots == {<<"R">>, <<".", "R">>}
Subdirs == {<<"w">>, <<"a", "w">>}
Folders == {join(<<"R">>, s) : s \in Subdirs}
Paths == {join(r, s) : r \in Roots, s \in Subdirs}

calculate_wafer_id(folder_path) == <<"sha256">> \o folder_path

UnknownId == calculate_wafer_id(<<"nowhere">>)
WaferIds == {calculate_wafer_id(p) : p \in Paths} \cup {UnknownId}

(***************************************************************************)
(* Reports (raw_data.txt).  A readable report is the number of its comment *)
(* or blank lines and the sequence of its other lines; the first of those  *)
(* is the header.  A line is its comma separated fields: how many there    *)
(* are, the defect id (0: empty), whether the numeric fields parse, and    *)
(* the ai_adc_type.                                                        *)
(***************************************************************************)
NoReport == [kind |-> "absent"]
Unreadable == [kind |-> "unreadable"]
Report(n, ls) == [kind |-> "text", ncomment |-> n, lines |-> ls]

Line(nf, id, num, ai) == [nfields |-> nf, defect_id |-> id, numeric |-> num, ai_adc_type |-> ai]
Header == Line(4, 9, FALSE, 0)
D(id, ai) == Line(4, id, TRUE, ai)
ShortLine == Line(3, 9, TRUE, 0)
EmptyIdLine == Line(4, 0, TRUE, 1)
NonIntLine == Line(4, 3, FALSE, 0)

\* generate_wafer_data: a header and defect_count rows with distinct ids
generate_wafer_data(defect_count) ==
    Report(0, <<Header>> \o [j \in 1..defect_count |-> D(j, 1 + (j % 5))])

Reports ==
    { Report(0, <<>>),
      Report(1, <<>>),
      Report(0, <<Header>>),
      Report(0, <<Header, ShortLine>>),
      Report(1, <<Header, D(1, 1), D(2, 2), D(3, 3), ShortLine>>),
      Report(0, <<Header, D(2, 1), EmptyIdLine, D(1, 2), NonIntLine>>),
      Report(0, <<Header, D(1, 1), D(2, 1), D(1, 2)>>),
      generate_wafer_data(InitDefects) }

(***************************************************************************)
(* Detail stores (database.db).                                            *)
(***************************************************************************)
NoFile == [kind |-> "none"]
EmptyFile == [kind |-> "empty"]
Db(cols, rows) == [kind |-> "db", columns |-> cols, rows |-> rows]

BaseColumns == <<"defect_id", "center_x", "center_y", "ai_adc_type", "adc_type">>

\* a variant in which a fresh row has the type 0 instead of no type
DefectRowZero(id, ai) ==
    [defect_id |-> id, ai_adc_type |-> ai, adc_type |-> 0,
     severity |-> NULL_TEXT, comment |-> NULL_TEXT, label_count |-> NULL_INT]

DefectRow(id, ai) ==
    [defect_id |-> id, ai_adc_type |-> ai, adc_type |-> NULL_INT,
     severity |-> NULL_TEXT, comment |-> NULL_TEXT, label_count |-> NULL_INT]

HasColumn(db, c) == db.kind = "db" /\ \E i \in 1..Len(db.columns) : db.columns[i] = c

\* os.path.exists(inner_db_path)
exists(db) == db.kind # "none"

\* sqlite3.connect(inner_db_path) creates the file when there is none
connect(db) == IF db.kind = "none" THEN EmptyFile ELSE db

\* SELECT name FROM sqlite_master WHERE type='table' AND name='defect_info'
HasTable(db) == db.kind = "db"

(***************************************************************************)
(* _create_inner_database: the store built from a report.                  *)
(***************************************************************************)
\* the field checks of the import loop: at least 4 fields, a non-empty
\* defect id, integer numeric fields; any other line is skipped
WellFormed(l) == l.nfields >= 4 /\ l.defect_id # 0 /\ l.numeric

\* a variant that keeps every data line
insert_data_unchecked(data_lines) == data_lines

insert_data(data_lines) == SelectSeq(data_lines, WellFormed)

\* a variant that keeps the first row of a defect_id (INSERT OR IGNORE)
RECURSIVE executemany_ignore(_, _)
executemany_ignore(rows, data) ==
    IF data = <<>> THEN rows
    ELSE LET l == Head(data)
             held == SelectSeq(rows, LAMBDA r : r.defect_id = l.defect_id)
         IN executemany_ignore(IF held # <<>> THEN rows
                               ELSE Append(rows, DefectRow(l.defect_id, l.ai_adc_type)),
                               Tail(data))

\* INSERT OR REPLACE INTO defect_info, row by row: a row with the same
\* defect_id is deleted and the new one gets the next rowid
RECURSIVE executemany(_, _)
executemany(rows, data) ==
    IF data = <<>> THEN rows
    ELSE LET l == Head(data)
             kept == SelectSeq(rows, LAMBDA r : r.defect_id # l.defect_id)
         IN executemany(Append(kept, DefectRow(l.defect_id, l.ai_adc_type)), Tail(data))

\* a variant that leaves the file when nothing was counted
create_inner_database_keep(raw, defect_count) ==
    IF raw.kind # "text" THEN NoFile
    ELSE IF raw.lines = <<>> THEN NoFile
    ELSE Db(BaseColumns, executemany(<<>>, insert_data(Tail(raw.lines))))

\* The old file is removed first; the file is removed again at the end when
\* nothing was counted (the report cannot be read, has no line, or no line
\* survives).  defect_count is not used by the code.
create_inner_database(raw, defect_count) ==
    IF raw.kind # "text" THEN NoFile
    ELSE IF raw.lines = <<>> THEN NoFile
    ELSE LET rows == executemany(<<>>, insert_data(Tail(raw.lines)))
             actual_count == Len(rows)
         IN IF actual_count = 0 THEN NoFile ELSE Db(BaseColumns, rows)

(***************************************************************************)
(* Error messages.                                                         *)
(***************************************************************************)
MSG_RAW_MISSING == "raw_data.txt missing"
MSG_IMAGE_MISSING == "bright/dark field image missing"
MSG_IO == "cannot read raw_data.txt"
MSG_RAW_EMPTY == "raw_data.txt empty or malformed"
MSG_CREATE_FAILED == "inner database creation failed"
MSG_CREATE_RAISED == "create database failed: cannot read raw_data.txt"
MSG_NO_TABLE == "table structure incomplete"
MSG_NO_DATA == "inner database has no defect data"
MSG_ENTER_RAISED == "enter inner failed: cannot read raw_data.txt"
MSG_NO_WAFER == "wafer does not exist"
MSG_SQL_NO_TABLE == "no such table: defect_info"
MSG_SQL_VALUES == "9 values for 8 columns"

(***************************************************************************)
(* _parse_wafer_folder: the prerequisite checks, the header-derived count  *)
(* and the store.  The result is the exception raised (if any), the count  *)
(* returned and the detail store left on disk.                             *)
(***************************************************************************)
Raise(msg, db) == [raised |-> TRUE, error |-> msg, defect_count |-> 0, db |-> db]

parse_wafer_folder(raw, imgs, db) ==
    IF raw.kind = "absent" THEN Raise(MSG_RAW_MISSING, db)
    ELSE IF ~imgs.bright_field \/ ~imgs.dark_field THEN Raise(MSG_IMAGE_MISSING, db)
    ELSE IF raw.kind = "unreadable" THEN Raise(MSG_IO, db)
    ELSE LET defect_count == raw.ncomment + Len(raw.lines) - 1
         IN [raised |-> FALSE, error |-> "", defect_count |-> defect_count,
             db |-> create_inner_database(raw, defect_count)]

(***************************************************************************)
(* Rows of wafer_metadata.                                                 *)
(***************************************************************************)
NoRow == [present |-> FALSE]

MetaRow(name, path, total, labeled, progress, lstatus, pstatus, perror) ==
    [present |-> TRUE, wafer_name |-> name, folder_path |-> path,
     total_defects |-> total, labeled_defects |-> labeled, progress |-> progress,
     label_status |-> lstatus, parsed_status |-> pstatus, parse_error |-> perror]

\* a variant that also clears the counters
mark_error_reset(row, msg) ==
    IF row.present
    THEN [row EXCEPT !.parsed_status = PARSE_ERROR, !.parse_error = msg,
                     !.total_defects = 0, !.labeled_defects = 0]
    ELSE row

\* UPDATE wafer_metadata SET parsed_status = 2, parse_error = ? WHERE wafer_id = ?
mark_error(row, msg) ==
    IF row.present THEN [row EXCEPT !.parsed_status = PARSE_ERROR, !.parse_error = msg]
    ELSE row

(***************************************************************************)
(* _sync_progress: counters, progress and status from the rebuilt store.   *)
(***************************************************************************)
\* the three detection rules, by the columns the store has
count_labeled(db) ==
    IF HasColumn(db, "label_count")
    THEN Len(SelectSeq(db.rows, LAMBDA r : r.label_count >= 1))
    ELSE IF HasColumn(db, "severity")
    THEN Len(SelectSeq(db.rows, LAMBDA r :
            \/ (r.adc_type # NULL_INT /\ r.ai_adc_type # r.adc_type)
            \/ (r.severity # NULL_TEXT /\ r.severity # "")))
    ELSE Len(SelectSeq(db.rows, LAMBDA r : r.adc_type # NULL_INT /\ r.ai_adc_type # r.adc_type))

\* round(num / den, 0) to the nearest integer, ties to even
RoundHalfEven(num, den) ==
    LET q == num \div den
        r == num % den
    IN IF 2 * r < den THEN q
       ELSE IF 2 * r > den THEN q + 1
       ELSE IF q % 2 = 0 THEN q ELSE q + 1

\* a variant that truncates instead of rounding
compute_progress_truncated(labeled_defects, total_defects) ==
    IF total_defects > 0 THEN (labeled_defects * 10000) \div total_defects ELSE 0

\* round(labeled / total * 100, 2), in hundredths of a percent
compute_progress(labeled_defects, total_defects) ==
    IF total_defects > 0 THEN RoundHalfEven(labeled_defects * 10000, total_defects) ELSE 0

compute_label_status(progress, labeled_defects) ==
    IF progress = 10000 THEN COMPLETE
    ELSE IF labeled_defects > 0 THEN IN_PROGRESS
    ELSE NOT_STARTED

\* a variant that adds the store's rows to the total it finds in the index
update_counts_accumulate(row, db) ==
    [row EXCEPT !.total_defects = @ + Len(db.rows),
                !.labeled_defects = count_labeled(db),
                !.parsed_status = PARSED,
                !.parse_error = NULL_TEXT]

\* the final UPDATE of the index row from the store
update_counts(row, db) ==
    LET total_defects == Len(db.rows)
        labeled_defects == count_labeled(db)
        progress == compute_progress(labeled_defects, total_defects)
    IN [row EXCEPT !.total_defects = total_defects,
                   !.labeled_defects = labeled_defects,
                   !.progress = progress,
                   !.label_status = compute_label_status(progress, labeled_defects),
                   !.parsed_status = PARSED,
                   !.parse_error = NULL_TEXT]

\* the old store is removed before the report is read
remove_old(db) == NoFile

\* the result: the index row and the detail store afterwards, and how many
\* times the store was created
Synced(row, db, n) == [row |-> row, db |-> db, creations |-> n]

\* a variant that removes the old store before it looks for the report
sync_progress_remove_first(row, raw, db) ==
    LET removed == remove_old(db) IN
    IF raw.kind = "absent" THEN Synced(mark_error(row, MSG_RAW_MISSING), removed, 0)
    ELSE IF raw.kind = "unreadable" THEN Synced(mark_error(row, MSG_CREATE_RAISED), removed, 0)
    ELSE IF Len(raw.lines) < 1 THEN Synced(mark_error(row, MSG_RAW_EMPTY), removed, 0)
    ELSE LET created == create_inner_database(raw, Len(raw.lines) - 1)
         IN IF ~exists(created) THEN Synced(mark_error(row, MSG_CREATE_FAILED), created, 1)
            ELSE Synced(update_counts(row, created), created, 1)

sync_progress(row, raw, db) ==
    IF raw.kind = "absent" THEN Synced(mark_error(row, MSG_RAW_MISSING), db, 0)
    ELSE LET removed == remove_old(db) IN
         IF raw.kind = "unreadable" THEN Synced(mark_error(row, MSG_CREATE_RAISED), removed, 0)
         ELSE IF Len(raw.lines) < 1 THEN Synced(mark_error(row, MSG_RAW_EMPTY), removed, 0)
         ELSE LET defect_count == Len(raw.lines) - 1
                  created == create_inner_database(raw, defect_count)
              IN IF ~exists(created) THEN Synced(mark_error(row, MSG_CREATE_FAILED), created, 1)
                 ELSE IF ~HasTable(created) THEN Synced(mark_error(row, MSG_NO_TABLE), created, 1)
                 ELSE IF Len(created.rows) = 0 /\ defect_count > 0
                      \* the retry; the counts are read through the connection
                      \* that was opened on the first file
                      THEN LET again == create_inner_database(raw, defect_count)
                           IN Synced(update_counts(row, created), again, 2)
                      ELSE Synced(update_counts(row, created), created, 1)

(***************************************************************************)
(* load_wafer_folders: one candidate folder.                               *)
(***************************************************************************)
\* the column list and the number of placeholders of the two INSERT
\* statements that register a parsed wafer
INSERT_COLUMNS == <<"wafer_id", "wafer_name", "folder_path", "total_defects",
                    "progress", "label_status", "parsed_status", "last_operated">>
INSERT_PLACEHOLDERS == 9

\* the INSERT of a parsed wafer: sqlite3 refuses a statement whose number of
\* values differs from its number of columns
insert_parsed(idx, wafer_id, folder_path, total_defects) ==
    IF INSERT_PLACEHOLDERS # Len(INSERT_COLUMNS)
    THEN [raised |-> TRUE, error |-> MSG_SQL_VALUES, index |-> idx]
    ELSE [raised |-> FALSE, error |-> "",
          index |-> [idx EXCEPT ![wafer_id] =
                        MetaRow(basename(folder_path), folder_path, total_defects, 0, 0,
                                NOT_STARTED, PARSED, NULL_TEXT)]]

\* a variant that records the failure of a known wafer only
record_failure_known(idx, wafer_id, folder_path, existing_record, error_msg) ==
    IF existing_record
    THEN [idx EXCEPT ![wafer_id] = mark_error(idx[wafer_id], error_msg)]
    ELSE idx

\* the except branch: the failure is written to the index
record_failure(idx, wafer_id, folder_path, existing_record, error_msg) ==
    IF existing_record
    THEN [idx EXCEPT ![wafer_id] = mark_error(idx[wafer_id], error_msg)]
    ELSE [idx EXCEPT ![wafer_id] =
             MetaRow(basename(folder_path), folder_path, 0, 0, 0, NOT_STARTED,
                     PARSE_ERROR, error_msg)]

\* the running state of the loop
Loop(idx, dbs, processed, success, failed, failed_ids, fresh_ids) ==
    [index |-> idx, database |-> dbs, total_processed |-> processed,
     success |-> success, failed |-> failed, failed_ids |-> failed_ids,
     fresh_ids |-> fresh_ids]

Failed(st, idx, dbs, wafer_id, fresh) ==
    Loop(idx, dbs, st.total_processed + 1, st.success, st.failed + 1,
         st.failed_ids \cup {wafer_id}, st.fresh_ids \cup fresh)

Succeeded(st, idx, dbs, fresh) ==
    Loop(idx, dbs, st.total_processed + 1, st.success + 1, st.failed,
         st.failed_ids, st.fresh_ids \cup fresh)

\* a variant that leaves a known wafer alone when it has a store
process_folder_trusting(st, folder_path, raws, imgs) ==
    LET wafer_id == calculate_wafer_id(folder_path)
        f == FolderOf(folder_path)
        existing_record == st.index[wafer_id].present
        has_inner_db == exists(st.database[f])
        fresh == IF ~existing_record /\ ~has_inner_db THEN {wafer_id} ELSE {}
        parsed == parse_wafer_folder(raws[f], imgs[f], st.database[f])
        dbs == [st.database EXCEPT ![f] = parsed.db]
        ins == insert_parsed(st.index, wafer_id, folder_path, parsed.defect_count)
        synced == sync_progress(st.index[wafer_id], raws[f], st.database[f])
    IN IF ~existing_record /\ parsed.raised
       THEN Failed(st, record_failure(st.index, wafer_id, folder_path, FALSE, parsed.error),
                   dbs, wafer_id, fresh)
       ELSE IF ~existing_record /\ ins.raised
       THEN Failed(st, record_failure(st.index, wafer_id, folder_path, FALSE, ins.error),
                   dbs, wafer_id, fresh)
       ELSE IF ~existing_record THEN Succeeded(st, ins.index, dbs, fresh)
       ELSE IF has_inner_db THEN Succeeded(st, st.index, st.database, fresh)
       ELSE Succeeded(st, [st.index EXCEPT ![wafer_id] = synced.row],
                      [st.database EXCEPT ![f] = synced.db], fresh)

\* a variant that counts a known wafer by the outcome of its
\* resynchronisation
process_folder_judging(st, folder_path, raws, imgs) ==
    LET wafer_id == calculate_wafer_id(folder_path)
        f == FolderOf(folder_path)
        existing_record == st.index[wafer_id].present
        has_inner_db == exists(st.database[f])
        fresh == IF ~existing_record /\ ~has_inner_db THEN {wafer_id} ELSE {}
        parsed == parse_wafer_folder(raws[f], imgs[f], st.database[f])
        dbs == [st.database EXCEPT ![f] = parsed.db]
        ins == insert_parsed(st.index, wafer_id, folder_path, parsed.defect_count)
        synced == sync_progress(st.index[wafer_id], raws[f], st.database[f])
    IN IF ~existing_record /\ parsed.raised
       THEN Failed(st, record_failure(st.index, wafer_id, folder_path, FALSE, parsed.error),
                   dbs, wafer_id, fresh)
       ELSE IF ~existing_record /\ ins.raised
       THEN Failed(st, record_failure(st.index, wafer_id, folder_path, FALSE, ins.error),
                   dbs, wafer_id, fresh)
       ELSE IF ~existing_record THEN Succeeded(st, ins.index, dbs, fresh)
       ELSE IF synced.row.parsed_status = PARSE_ERROR
       THEN Failed(st, [st.index EXCEPT ![wafer_id] = synced.row],
                   [st.database EXCEPT ![f] = synced.db], wafer_id, fresh)
       ELSE Succeeded(st, [st.index EXCEPT ![wafer_id] = synced.row],
                      [st.database EXCEPT ![f] = synced.db], fresh)

process_folder(st, folder_path, raws, imgs) ==
    LET wafer_id == calculate_wafer_id(folder_path)
        f == FolderOf(folder_path)
        existing_record == st.index[wafer_id].present
        has_inner_db == exists(st.database[f])
        fresh == IF ~existing_record /\ ~has_inner_db THEN {wafer_id} ELSE {}
    IN IF ~existing_record
       THEN \* first load, or a store without an index row: parse, then INSERT
            LET parsed == parse_wafer_folder(raws[f], imgs[f], st.database[f])
                dbs == [st.database EXCEPT ![f] = parsed.db]
                ins == insert_parsed(st.index, wafer_id, folder_path, parsed.defect_count)
            IN IF parsed.raised
               THEN Failed(st, record_failure(st.index, wafer_id, folder_path, FALSE, parsed.error),
                           dbs, wafer_id, fresh)
               ELSE IF ins.raised
               THEN Failed(st, record_failure(st.index, wafer_id, folder_path, FALSE, ins.error),
                           dbs, wafer_id, fresh)
               ELSE Succeeded(st, ins.index, dbs, fresh)
       ELSE \* a known wafer: forced resynchronisation
            LET synced == sync_progress(st.index[wafer_id], raws[f], st.database[f])
            IN Succeeded(st, [st.index EXCEPT ![wafer_id] = synced.row],
                         [st.database EXCEPT ![f] = synced.db], fresh)

\* a variant in which the first failure ends the loop
RECURSIVE process_folders_abort(_, _, _, _)
process_folders_abort(st, wafer_folders, raws, imgs) ==
    IF wafer_folders = <<>> \/ st.failed > 0 THEN st
    ELSE process_folders_abort(process_folder(st, Head(wafer_folders), raws, imgs),
                               Tail(wafer_folders), raws, imgs)

RECURSIVE process_folders(_, _, _, _)
process_folders(st, wafer_folders, raws, imgs) ==
    IF wafer_folders = <<>> THEN st
    ELSE process_folders(process_folder(st, Head(wafer_folders), raws, imgs),
                         Tail(wafer_folders), raws, imgs)

\* os.walk / os.listdir: the folders below root_dir that hold a raw_data.txt
candidate_folders(root_dir, recursive, raws) ==
    {join(root_dir, s) : s \in {t \in Subdirs :
        /\ raws[FolderOf(join(root_dir, t))].kind # "absent"
        /\ (recursive \/ Len(t) = 1)}}

\* the orders in which the directory listing may give a set of folders
Orders(S) == {o \in [1..Cardinality(S) -> S] : \A i, j \in 1..Cardinality(S) : o[i] = o[j] => i = j}

(***************************************************************************)
(* Inputs of the operations.                                               *)
(***************************************************************************)
type_map == [n \in {"Particle", "Scratch", "Stain", "Pinhole", "Other"} |->
               CASE n = "Particle" -> 1 [] n = "Scratch" -> 2 [] n = "Stain" -> 3
                 [] n = "Pinhole" -> 4 [] n = "Other" -> 5]

\* type_map.get(adc_type, 0)
adc_type_num(adc_type) == IF adc_type \in DOMAIN type_map THEN type_map[adc_type] ELSE 0

AdcTypeArgs == {"Scratch", "Unknown"}
SeverityArgs == {NULL_TEXT}
CommentArgs == {NULL_TEXT}
DefectIndexArgs == -1 .. InitDefects

(***************************************************************************)
(* The request handlers of the server, one per connection: the statement   *)
(* of save_label / _sync_progress a handler has reached (pc), its request, *)
(* the defect it labels, and the detail store as its last statement left   *)
(* it (seen).                                                              *)
(***************************************************************************)
Connections == {1, 2}

Handling(pc, req, target, seen) == [pc |-> pc, req |-> req, target |-> target, seen |-> seen]

NoRequest == Handling("none", [op |-> "none"], 0, NoFile)

(***************************************************************************)
(* The state after construction: an empty index.  In Init one folder holds *)
(* a wafer as the fixture generator writes it and the other is empty; in   *)
(* InitUnits both hold a wafer.                                            *)
(***************************************************************************)
Wafer1 == <<"R", "w">>

InitWith(wafers) ==
    /\ raw_data = [f \in Folders |->
                      IF f \in wafers THEN generate_wafer_data(InitDefects) ELSE NoReport]
    /\ images = [f \in Folders |-> [bright_field |-> TRUE, dark_field |-> TRUE]]
    /\ database = [f \in Folders |-> NoFile]
    /\ index = [w \in WaferIds |-> NoRow]
    /\ last = [op |-> "init"]
    /\ env_steps = 0
    /\ handlers = [c \in Connections |-> NoRequest]

Init == InitWith({Wafer1})

InitUnits == InitWith(Folders)

(***************************************************************************)
(* The environment: a report is rewritten, removed or made unreadable, an  *)
(* image is removed or restored.                                           *)
(***************************************************************************)
WriteReport(f, r) ==
    /\ env_steps < MaxEnvSteps
    /\ r # raw_data[f]
    /\ raw_data' = [raw_data EXCEPT ![f] = r]
    /\ env_steps' = env_steps + 1
    /\ last' = [op |-> "env"]
    /\ UNCHANGED <<images, database, index, handlers>>

WriteImages(f, bf, df) ==
    /\ env_steps < MaxEnvSteps
    /\ images[f] # [bright_field |-> bf, dark_field |-> df]
    /\ images' = [images EXCEPT ![f] = [bright_field |-> bf, dark_field |-> df]]
    /\ env_steps' = env_steps + 1
    /\ last' = [op |-> "env"]
    /\ UNCHANGED <<raw_data, database, index, handlers>>

(***************************************************************************)
(* The operations.                                                         *)
(***************************************************************************)
load_wafer_folders(root_dir, recursive) ==
    \E wafer_folders \in Orders(candidate_folders(root_dir, recursive, raw_data)) :
        LET st == process_folders(Loop(index, database, 0, 0, 0, {}, {}),
                                  wafer_folders, raw_data, images)
        IN /\ index' = st.index
           /\ database' = st.database
           /\ last' = [op |-> "load_wafer_folders", root_dir |-> root_dir,
                       recursive |-> recursive,
                       candidates |-> {calculate_wafer_id(wafer_folders[i]) :
                                          i \in 1..Len(wafer_folders)},
                       result |-> [total_processed |-> st.total_processed,
                                   success |-> st.success, failed |-> st.failed],
                       failed_ids |-> st.failed_ids, fresh_ids |-> st.fresh_ids]
           /\ UNCHANGED <<raw_data, images, env_steps, handlers>>

sync_wafer_progress(wafer_id) ==
    LET result == index[wafer_id].present
        f == FolderOf(index[wafer_id].folder_path)
        synced == sync_progress(index[wafer_id], raw_data[f], database[f])
    IN /\ IF result
          THEN /\ index' = [index EXCEPT ![wafer_id] = synced.row]
               /\ database' = [database EXCEPT ![f] = synced.db]
          ELSE UNCHANGED <<index, database>>
       /\ last' = [op |-> "sync_wafer_progress", wafer_id |-> wafer_id, result |-> result,
                   again |-> (last.op = "sync_wafer_progress" /\ last.wafer_id = wafer_id)]
       /\ UNCHANGED <<raw_data, images, env_steps, handlers>>

\* a variant that also clears the counters of the row
reset_wafer_status_clear(wafer_id) ==
    LET result == index[wafer_id].present
        f == FolderOf(index[wafer_id].folder_path)
    IN /\ IF result
          THEN /\ database' = [database EXCEPT ![f] = NoFile]
               /\ index' = [index EXCEPT ![wafer_id] =
                               [@ EXCEPT !.parsed_status = UNPARSED, !.parse_error = NULL_TEXT,
                                         !.total_defects = 0, !.progress = 0]]
          ELSE UNCHANGED <<index, database>>
       /\ last' = [op |-> "reset_wafer_status", wafer_id |-> wafer_id, result |-> result]
       /\ UNCHANGED <<raw_data, images, env_steps, handlers>>

\* a variant that leaves the error message of the row
reset_wafer_status_keep_error(wafer_id) ==
    LET result == index[wafer_id].present
        f == FolderOf(index[wafer_id].folder_path)
    IN /\ IF result
          THEN /\ database' = [database EXCEPT ![f] = NoFile]
               /\ index' = [index EXCEPT ![wafer_id] = [@ EXCEPT !.parsed_status = UNPARSED]]
          ELSE UNCHANGED <<index, database>>
       /\ last' = [op |-> "reset_wafer_status", wafer_id |-> wafer_id, result |-> result]
       /\ UNCHANGED <<raw_data, images, env_steps, handlers>>

reset_wafer_status(wafer_id) ==
    LET result == index[wafer_id].present
        f == FolderOf(index[wafer_id].folder_path)
    IN /\ IF result
          THEN /\ database' = [database EXCEPT ![f] = NoFile]
               /\ index' = [index EXCEPT ![wafer_id] =
                               [@ EXCEPT !.parsed_status = UNPARSED, !.parse_error = NULL_TEXT]]
          ELSE UNCHANGED <<index, database>>
       /\ last' = [op |-> "reset_wafer_status", wafer_id |-> wafer_id, result |-> result]
       /\ UNCHANGED <<raw_data, images, env_steps, handlers>>

\* the rows as SELECT defect_id FROM defect_info gives them: in the order of
\* the primary key index
select_defect_ids(db) ==
    SortSeq([i \in 1..Len(db.rows) |-> db.rows[i].defect_id], LAMBDA a, b : a < b)

LabelColumns == <<"severity", "comment", "label_time", "label_count">>

\* ALTER TABLE defect_info ADD COLUMN, for each label column that is missing:
\* text columns are NULL in the existing rows, label_count is 0
add_label_columns(db) ==
    LET missing == SelectSeq(LabelColumns, LAMBDA c : ~HasColumn(db, c))
    IN Db(db.columns \o missing,
          [i \in 1..Len(db.rows) |->
              IF HasColumn(db, "label_count") THEN db.rows[i]
              ELSE [db.rows[i] EXCEPT !.label_count = 0]])

\* UPDATE defect_info SET adc_type, severity, comment, label_count + 1
update_label(db, target_defect_id, adc, severity, comment) ==
    Db(db.columns,
       [i \in 1..Len(db.rows) |->
           IF db.rows[i].defect_id = target_defect_id
           THEN [db.rows[i] EXCEPT !.adc_type = adc, !.severity = severity,
                                   !.comment = comment,
                                   !.label_count = IF @ = NULL_INT THEN @ ELSE @ + 1]
           ELSE db.rows[i]])

\* the store after the labeling part of save_label, and the defect labeled
\* (0: none, the index is out of range)
apply_label(db, defect_index, adc_type, severity, comment) ==
    LET defect_ids == select_defect_ids(db)
    IN IF 0 <= defect_index /\ defect_index < Len(defect_ids)
       THEN [target |-> defect_ids[defect_index + 1],
             db |-> update_label(add_label_columns(db), defect_ids[defect_index + 1],
                                 adc_type_num(adc_type),
                                 IF severity = NULL_TEXT THEN "" ELSE severity,
                                 IF comment = NULL_TEXT THEN "" ELSE comment)]
       ELSE [target |-> 0, db |-> db]

save_label(wafer_id, defect_index, adc_type, severity, comment) ==
    LET known == index[wafer_id].present
        f == FolderOf(index[wafer_id].folder_path)
        opened == connect(database[f])
        labeled == apply_label(opened, defect_index, adc_type, severity, comment)
        synced == sync_progress(index[wafer_id], raw_data[f], labeled.db)
    IN /\ UNCHANGED <<raw_data, images, env_steps, handlers>>
       /\ (known /\ HasTable(opened)) =>
              \A i \in 1..Len(labeled.db.rows) : labeled.db.rows[i].label_count <= MaxLabelCount
       /\ IF ~known
          THEN /\ UNCHANGED <<index, database>>
               /\ last' = [op |-> "save_label", wafer_id |-> wafer_id,
                           defect_index |-> defect_index, target |-> 0,
                           result |-> [success |-> FALSE, error |-> MSG_NO_WAFER]]
          ELSE IF ~HasTable(opened)
          THEN \* SELECT defect_id FROM defect_info raises; the file stays
               /\ database' = [database EXCEPT ![f] = opened]
               /\ UNCHANGED index
               /\ last' = [op |-> "save_label", wafer_id |-> wafer_id,
                           defect_index |-> defect_index, target |-> 0,
                           result |-> [success |-> FALSE, error |-> MSG_SQL_NO_TABLE]]
          ELSE /\ index' = [index EXCEPT ![wafer_id] = synced.row]
               /\ database' = [database EXCEPT ![f] = synced.db]
               /\ last' = [op |-> "save_label", wafer_id |-> wafer_id,
                           defect_index |-> defect_index, target |-> labeled.target,
                           result |-> [success |-> TRUE, error |-> ""]]

get_wafer_data(wafer_id) ==
    LET known == index[wafer_id].present
        f == FolderOf(index[wafer_id].folder_path)
        opened == connect(database[f])
    IN /\ UNCHANGED <<raw_data, images, index, env_steps, handlers>>
       /\ IF ~known
          THEN /\ UNCHANGED database
               /\ last' = [op |-> "get_wafer_data", wafer_id |-> wafer_id, count |-> 0,
                           result |-> [success |-> FALSE, error |-> MSG_NO_WAFER]]
          ELSE /\ database' = [database EXCEPT ![f] = opened]
               /\ last' = IF HasTable(opened)
                          THEN [op |-> "get_wafer_data", wafer_id |-> wafer_id,
                                count |-> Len(opened.rows),
                                result |-> [success |-> TRUE, error |-> ""]]
                          ELSE [op |-> "get_wafer_data", wafer_id |-> wafer_id, count |-> 0,
                                result |-> [success |-> FALSE, error |-> MSG_SQL_NO_TABLE]]

enter_inner_layer(wafer_id) ==
    LET known == index[wafer_id].present
        f == FolderOf(index[wafer_id].folder_path)
        raw == raw_data[f]
        \* the store is rebuilt from the report when there is none
        rebuilt == IF exists(database[f]) THEN database[f]
                   ELSE create_inner_database(raw, Len(raw.lines) - 1)
        opened == connect(rebuilt)
        Return(success, error) ==
            last' = [op |-> "enter_inner_layer", wafer_id |-> wafer_id,
                     result |-> [success |-> success, error |-> error]]
    IN /\ UNCHANGED <<raw_data, images, env_steps, handlers>>
       /\ IF ~known
          THEN /\ UNCHANGED <<index, database>>
               /\ Return(FALSE, MSG_NO_WAFER)
          ELSE IF raw.kind = "absent"
          THEN /\ UNCHANGED <<index, database>>
               /\ Return(FALSE, MSG_RAW_MISSING)
          ELSE IF ~exists(database[f]) /\ raw.kind = "unreadable"
          THEN \* open(raw_data_path) raises: the except branch
               /\ index' = [index EXCEPT ![wafer_id] = mark_error(@, MSG_ENTER_RAISED)]
               /\ UNCHANGED database
               /\ Return(FALSE, MSG_IO)
          ELSE /\ database' = [database EXCEPT ![f] = opened]
               /\ UNCHANGED index
               /\ IF ~HasTable(opened) THEN Return(FALSE, MSG_NO_TABLE)
                  ELSE IF Len(opened.rows) = 0 THEN Return(FALSE, MSG_NO_DATA)
                  ELSE Return(TRUE, "")

(***************************************************************************)
(* export_wafer_kfl and batch_export_kfl.  An export file is the wafer     *)
(* name its file name is made of, the rows selected for it and the lines   *)
(* written to it; a scratch directory is the sequence of the files in it.  *)
(***************************************************************************)
MSG_NO_STORE == "inner database does not exist"
MSG_NOTHING == "no exportable wafer found"

\* the columns of a row that the export writes
KflRow(r) == [defect_id |-> r.defect_id, ai_adc_type |-> r.ai_adc_type, adc_type |-> r.adc_type]

\* SELECT * FROM defect_info
select_all(db) == [i \in 1..Len(db.rows) |-> KflRow(db.rows[i])]

\* a variant in which a NULL adc_type counts as different
select_relabeled_nulls(db) ==
    LET kept == SelectSeq(db.rows, LAMBDA r : r.ai_adc_type # r.adc_type)
    IN [i \in 1..Len(kept) |-> KflRow(kept[i])]

\* SELECT * FROM defect_info WHERE ai_adc_type != adc_type: the comparison
\* with a NULL adc_type is not true
select_relabeled(db) ==
    LET kept == SelectSeq(db.rows, LAMBDA r :
                    r.adc_type # NULL_INT /\ r.ai_adc_type # r.adc_type)
    IN [i \in 1..Len(kept) |-> KflRow(kept[i])]

\* the lines of an export file
TitleLine(wafer_name) == [kind |-> "title", wafer_name |-> wafer_name]
HeaderLine == [kind |-> "header", fields |-> BaseColumns]
RowLine(defect) == [kind |-> "row", defect |-> defect]

\* a variant that writes no title line
write_kfl_untitled(wafer_name, defects) ==
    <<HeaderLine>> \o [i \in 1..Len(defects) |-> RowLine(defects[i])]

\* f.write: the title, the column names, then one line per selected row
write_kfl(wafer_name, defects) ==
    <<TitleLine(wafer_name), HeaderLine>> \o [i \in 1..Len(defects) |-> RowLine(defects[i])]

KflFile(wafer_name, defects) ==
    [name |-> wafer_name, rows |-> defects, lines |-> write_kfl(wafer_name, defects)]

Exported(file) == [raised |-> FALSE, ok |-> TRUE, file |-> file, error |-> ""]
NotExported(msg) == [raised |-> FALSE, ok |-> FALSE, error |-> msg]
ExportRaised(msg) == [raised |-> TRUE, ok |-> FALSE, error |-> msg]

\* a variant that looks for the store before it looks for the row
export_kfl_store_first(idx, dbs, wafer_id, export_all) ==
    IF ~idx[wafer_id].present THEN NotExported(MSG_NO_STORE)
    ELSE LET db == dbs[FolderOf(idx[wafer_id].folder_path)]
         IN IF ~exists(db) THEN NotExported(MSG_NO_STORE)
            ELSE IF ~HasTable(db) THEN ExportRaised(MSG_SQL_NO_TABLE)
            ELSE IF export_all \/ idx[wafer_id].label_status = COMPLETE
            THEN Exported(KflFile(idx[wafer_id].wafer_name, select_all(db)))
            ELSE Exported(KflFile(idx[wafer_id].wafer_name, select_relabeled(db)))

\* the result of export_wafer_kfl: (export_file, None), (None, message), or
\* the exception that leaves the method
export_kfl(idx, dbs, wafer_id, export_all) ==
    IF ~idx[wafer_id].present THEN NotExported(MSG_NO_WAFER)
    ELSE LET db == dbs[FolderOf(idx[wafer_id].folder_path)]
         IN IF ~exists(db) THEN NotExported(MSG_NO_STORE)
            ELSE IF ~HasTable(db) THEN ExportRaised(MSG_SQL_NO_TABLE)
            ELSE IF export_all \/ idx[wafer_id].label_status = COMPLETE
            THEN Exported(KflFile(idx[wafer_id].wafer_name, select_all(db)))
            ELSE Exported(KflFile(idx[wafer_id].wafer_name, select_relabeled(db)))

\* shutil.copy into the scratch directory: a file of the same name is
\* overwritten
copy(temp_dir, file) ==
    SelectSeq(temp_dir, LAMBDA g : g.name # file.name) \o <<file>>

\* the file a name denotes in the scratch directory
FileNamed(temp_dir, name) ==
    LET found == SelectSeq(temp_dir, LAMBDA g : g.name = name) IN found[1]

\* the running state of the batch loop
Batch(temp_dir, export_files, raised) ==
    [temp_dir |-> temp_dir, export_files |-> export_files, raised |-> raised]

\* the loop of batch_export_kfl: an error result is skipped, an exception
\* ends the loop
RECURSIVE export_each(_, _, _, _)
export_each(b, idx, dbs, wafer_ids) ==
    IF wafer_ids = <<>> \/ b.raised THEN b
    ELSE LET e == export_kfl(idx, dbs, Head(wafer_ids), FALSE)
         IN IF e.raised THEN Batch(b.temp_dir, b.export_files, TRUE)
            ELSE IF ~e.ok THEN export_each(b, idx, dbs, Tail(wafer_ids))
            ELSE export_each(Batch(copy(b.temp_dir, e.file),
                                   Append(b.export_files, e.file.name), FALSE),
                             idx, dbs, Tail(wafer_ids))

\* the archive: one entry per element of export_files, read from the scratch
\* directory when the archive is written
zip_entries(b) ==
    [i \in 1..Len(b.export_files) |-> FileNamed(b.temp_dir, b.export_files[i])]

batch_kfl(idx, dbs, wafer_ids) ==
    LET b == export_each(Batch(<<>>, <<>>, FALSE), idx, dbs, wafer_ids)
    IN IF b.raised THEN ExportRaised(MSG_SQL_NO_TABLE)
       ELSE IF b.export_files # <<>> THEN Exported(zip_entries(b))
       ELSE NotExported(MSG_NOTHING)

export_wafer_kfl(wafer_id, export_all) ==
    /\ last' = [op |-> "export_wafer_kfl", wafer_id |-> wafer_id, export_all |-> export_all,
                result |-> export_kfl(index, database, wafer_id, export_all)]
    /\ UNCHANGED <<raw_data, images, database, index, env_steps, handlers>>

batch_export_kfl(wafer_ids) ==
    /\ last' = [op |-> "batch_export_kfl", wafer_ids |-> wafer_ids,
                result |-> batch_kfl(index, database, wafer_ids)]
    /\ UNCHANGED <<raw_data, images, database, index, env_steps, handlers>>

(***************************************************************************)
(* The server.  socketserver.TCPServer takes one connection at a time:     *)
(* serve_forever accepts a connection, runs the request handler to its end *)
(* and only then accepts the next one; a connection made meanwhile waits   *)
(* in the listen queue.  The handler of a save_label request runs the      *)
(* statements of save_label and then those of _sync_progress; the handler  *)
(* of a sync_progress request runs those of _sync_progress.                *)
(***************************************************************************)
LabelRequest(wafer_id, defect_index, adc_type) ==
    [op |-> "save_label", wafer_id |-> wafer_id, defect_index |-> defect_index,
     adc_type |-> adc_type]

SyncRequest(wafer_id) == [op |-> "sync_progress", wafer_id |-> wafer_id]

Requests ==
    {LabelRequest(calculate_wafer_id(Wafer1), i, a) : i \in DefectIndexArgs, a \in AdcTypeArgs}
       \cup {SyncRequest(calculate_wafer_id(Wafer1))}

\* the handler is between its first and its last statement
Active(h) == h.pc \notin {"none", "pending"}

\* the handler returns and the connection is closed
Served(c, req, success) ==
    /\ handlers' = [handlers EXCEPT ![c] = NoRequest]
    /\ last' = [op |-> "served", request |-> req.op, wafer_id |-> req.wafer_id,
                connection |-> c, result |-> success]

\* the first statement of the handler of a request
Started(c, req) ==
    IF ~index[req.wafer_id].present
    THEN Served(c, req, FALSE)
    ELSE /\ handlers' = [handlers EXCEPT ![c] =
                Handling(IF req.op = "save_label" THEN "select" ELSE "remove", req, 0,
                         database[FolderOf(index[req.wafer_id].folder_path)])]
         /\ UNCHANGED last

\* a client connects and sends a request
get_request(c, req) ==
    /\ handlers[c].pc = "none"
    /\ handlers' = [handlers EXCEPT ![c] = Handling("pending", req, 0, NoFile)]
    /\ UNCHANGED <<raw_data, images, database, index, last, env_steps>>

\* a variant that starts a handler for every waiting connection at once
process_request_threaded(c) ==
    /\ handlers[c].pc = "pending"
    /\ Started(c, handlers[c].req)
    /\ UNCHANGED <<raw_data, images, database, index, env_steps>>

\* the server takes a waiting connection when no handler is running
process_request(c) ==
    /\ handlers[c].pc = "pending"
    /\ \A d \in Connections : ~Active(handlers[d])
    /\ Started(c, handlers[c].req)
    /\ UNCHANGED <<raw_data, images, database, index, env_steps>>

\* save_label: connect, PRAGMA table_info, SELECT defect_id, the range check
select_ids(c) ==
    LET h == handlers[c]
        f == FolderOf(index[h.req.wafer_id].folder_path)
        opened == connect(database[f])
        defect_ids == select_defect_ids(opened)
    IN /\ h.pc = "select"
       /\ database' = [database EXCEPT ![f] = opened]
       /\ IF ~HasTable(opened)
          THEN Served(c, h.req, FALSE)
          ELSE /\ handlers' = [handlers EXCEPT ![c] =
                      IF 0 <= h.req.defect_index /\ h.req.defect_index < Len(defect_ids)
                      THEN Handling("alter", h.req, defect_ids[h.req.defect_index + 1], opened)
                      ELSE Handling("remove", h.req, 0, opened)]
               /\ UNCHANGED last
       /\ UNCHANGED <<raw_data, images, index, env_steps>>

\* save_label: ALTER TABLE defect_info ADD COLUMN for the missing columns
alter_table(c) ==
    LET h == handlers[c]
        f == FolderOf(index[h.req.wafer_id].folder_path)
        altered == IF HasTable(database[f]) THEN add_label_columns(database[f])
                   ELSE database[f]
    IN /\ h.pc = "alter"
       /\ database' = [database EXCEPT ![f] = altered]
       /\ handlers' = [handlers EXCEPT ![c] = Handling("update", h.req, h.target, altered)]
       /\ UNCHANGED <<raw_data, images, index, last, env_steps>>

\* save_label: UPDATE defect_info of the target row, commit, close
update_row(c) ==
    LET h == handlers[c]
        f == FolderOf(index[h.req.wafer_id].folder_path)
        updated == IF HasTable(database[f])
                   THEN update_label(database[f], h.target, adc_type_num(h.req.adc_type), "", "")
                   ELSE database[f]
    IN /\ h.pc = "update"
       /\ database' = [database EXCEPT ![f] = updated]
       /\ handlers' = [handlers EXCEPT ![c] = Handling("remove", h.req, h.target, updated)]
       /\ UNCHANGED <<raw_data, images, index, last, env_steps>>

\* _sync_progress: the report is looked for and the old store is removed
remove_store(c) ==
    LET h == handlers[c]
        wafer_id == h.req.wafer_id
        f == FolderOf(index[wafer_id].folder_path)
    IN /\ h.pc = "remove"
       /\ IF raw_data[f].kind = "absent"
          THEN /\ index' = [index EXCEPT ![wafer_id] =
                               sync_progress(index[wafer_id], raw_data[f], database[f]).row]
               /\ UNCHANGED database
               /\ Served(c, h.req, TRUE)
          ELSE /\ database' = [database EXCEPT ![f] = remove_old(database[f])]
               /\ handlers' = [handlers EXCEPT ![c] =
                                  Handling("rebuild", h.req, h.target, remove_old(database[f]))]
               /\ UNCHANGED <<index, last>>
       /\ UNCHANGED <<raw_data, images, env_steps>>

\* _sync_progress: the store is rebuilt from the report and the row is
\* written from it
rebuild_store(c) ==
    LET h == handlers[c]
        wafer_id == h.req.wafer_id
        f == FolderOf(index[wafer_id].folder_path)
        synced == sync_progress(index[wafer_id], raw_data[f], database[f])
    IN /\ h.pc = "rebuild"
       /\ index' = [index EXCEPT ![wafer_id] = synced.row]
       /\ database' = [database EXCEPT ![f] = synced.db]
       /\ Served(c, h.req, TRUE)
       /\ UNCHANGED <<raw_data, images, env_steps>>

\* a load_folders request: the handler runs load_wafer_folders to its end
serve_load_folders ==
    /\ \A c \in Connections : ~Active(handlers[c])
    /\ load_wafer_folders(<<"R">>, FALSE)

(***************************************************************************)
(* The specification.                                                      *)
(***************************************************************************)
\* one wafer, every report, one way of writing the root
Next ==
    \/ \E r \in Reports \cup {NoReport, Unreadable} : WriteReport(Wafer1, r)
    \/ \E bf, df \in BOOLEAN : WriteImages(Wafer1, bf, df)
    \/ \E recursive \in BOOLEAN : load_wafer_folders(<<"R">>, recursive)
    \/ \E wafer_id \in {calculate_wafer_id(Wafer1), UnknownId} :
          \/ sync_wafer_progress(wafer_id)
          \/ reset_wafer_status(wafer_id)
          \/ \E defect_index \in DefectIndexArgs, adc_type \in AdcTypeArgs,
                severity \in SeverityArgs, comment \in CommentArgs :
                save_label(wafer_id, defect_index, adc_type, severity, comment)
          \/ get_wafer_data(wafer_id)
          \/ enter_inner_layer(wafer_id)

Spec == Init /\ [][Next]_vars

\* two wafers, a report that is removed or loses its rows, an image that is
\* removed
UnitReports == {NoReport, Report(0, <<Header>>)}

NextUnits ==
    \/ \E f \in Folders, r \in UnitReports : WriteReport(f, r)
    \/ \E f \in Folders : WriteImages(f, TRUE, FALSE)
    \/ \E recursive \in BOOLEAN : load_wafer_folders(<<"R">>, recursive)
    \/ \E wafer_id \in {calculate_wafer_id(f) : f \in Folders} \cup {UnknownId} :
          \/ sync_wafer_progress(wafer_id)
          \/ reset_wafer_status(wafer_id)
          \/ save_label(wafer_id, 0, "Scratch", NULL_TEXT, NULL_TEXT)
          \/ get_wafer_data(wafer_id)
          \/ enter_inner_layer(wafer_id)

SpecUnits == InitUnits /\ [][NextUnits]_vars

\* one wafer, discovered through either way of writing the root
SpelledIds == {calculate_wafer_id(join(r, <<"w">>)) : r \in Roots}

NextPaths ==
    \/ \E r \in UnitReports : WriteReport(Wafer1, r)
    \/ \E root_dir \in Roots, recursive \in BOOLEAN : load_wafer_folders(root_dir, recursive)
    \/ \E wafer_id \in SpelledIds :
          \/ sync_wafer_progress(wafer_id)
          \/ reset_wafer_status(wafer_id)
          \/ save_label(wafer_id, 0, "Scratch", NULL_TEXT, NULL_TEXT)
          \/ get_wafer_data(wafer_id)

SpecPaths == Init /\ [][NextPaths]_vars

\* progress and label_status as _sync_progress derives them from the two
\* counts it has read, for counts drawn from Totals
Totals == (0 .. MaxTotal) \cup {BigTotal}

InitCounts ==
    /\ raw_data = [f \in Folders |-> NoReport]
    /\ images = [f \in Folders |-> [bright_field |-> TRUE, dark_field |-> TRUE]]
    /\ database = [f \in Folders |-> NoFile]
    /\ index = [w \in WaferIds |-> NoRow]
    /\ env_steps = 0
    /\ handlers = [c \in Connections |-> NoRequest]
    /\ \E total_defects \in Totals : \E labeled_defects \in 0 .. total_defects :
          last = [op |-> "counted", labeled_defects |-> labeled_defects,
                  total_defects |-> total_defects]

derive_progress ==
    /\ last.op = "counted"
    /\ LET progress == compute_progress(last.labeled_defects, last.total_defects)
       IN last' = [op |-> "derived", labeled_defects |-> last.labeled_defects,
                   total_defects |-> last.total_defects, progress |-> progress,
                   label_status |-> compute_label_status(progress, last.labeled_defects)]
    /\ UNCHANGED <<raw_data, images, database, index, env_steps, handlers>>

NextCounts == derive_progress

SpecCounts == InitCounts /\ [][NextCounts]_vars

\* two wafers of the same name, a report that is removed, and the exports
UnitIds == {calculate_wafer_id(f) : f \in Folders} \cup {UnknownId}
WaferIdLists == {<<>>} \cup {<<a>> : a \in UnitIds} \cup {<<a, b>> : a, b \in UnitIds}

NextExport ==
    \/ \E f \in Folders : WriteReport(f, NoReport)
    \/ \E recursive \in BOOLEAN : load_wafer_folders(<<"R">>, recursive)
    \/ \E wafer_id \in UnitIds :
          \/ sync_wafer_progress(wafer_id)
          \/ reset_wafer_status(wafer_id)
          \/ \E adc_type \in AdcTypeArgs : save_label(wafer_id, 0, adc_type, NULL_TEXT, NULL_TEXT)
          \/ get_wafer_data(wafer_id)
          \/ enter_inner_layer(wafer_id)
          \/ \E export_all \in BOOLEAN : export_wafer_kfl(wafer_id, export_all)
    \/ \E wafer_ids \in WaferIdLists : batch_export_kfl(wafer_ids)

SpecExport == InitUnits /\ [][NextExport]_vars

\* one wafer, and two connections whose requests the server handles
NextServer ==
    \/ serve_load_folders
    \/ \E c \in Connections, req \in Requests : get_request(c, req)
    \/ \E c \in Connections :
          \/ process_request(c)
          \/ select_ids(c)
          \/ alter_table(c)
          \/ update_row(c)
          \/ remove_store(c)
          \/ rebuild_store(c)

SpecServer == Init /\ [][NextServer]_vars

(***************************************************************************)
(* Properties.                                                             *)
(***************************************************************************)
\* the folder of an indexed wafer
FolderOfId(idx, wafer_id) == FolderOf(idx[wafer_id].folder_path)

\* the row of a defect in a store, and its label_count (0 when the store has
\* no such column or no such row)
RowsOf(db, defect_id) ==
    IF HasTable(db) THEN SelectSeq(db.rows, LAMBDA r : r.defect_id = defect_id) ELSE <<>>

LabelCountOf(db, defect_id) ==
    IF HasColumn(db, "label_count") /\ RowsOf(db, defect_id) # <<>>
       /\ RowsOf(db, defect_id)[1].label_count # NULL_INT
    THEN RowsOf(db, defect_id)[1].label_count
    ELSE 0

Unlabeled(db) ==
    HasTable(db) /\ \A i \in 1..Len(db.rows) :
        db.rows[i].adc_type = NULL_INT /\ LabelCountOf(db, db.rows[i].defect_id) = 0

\* the data lines of a report that pass the field checks
WellFormedLines(raw) ==
    IF raw.kind = "text" /\ raw.lines # <<>> THEN SelectSeq(Tail(raw.lines), WellFormed) ELSE <<>>

MalformedLines(raw) ==
    IF raw.kind = "text" /\ raw.lines # <<>>
    THEN SelectSeq(Tail(raw.lines), LAMBDA l : ~WellFormed(l)) ELSE <<>>

DistinctIds(raw) == {WellFormedLines(raw)[i].defect_id : i \in 1..Len(WellFormedLines(raw))}

\* the last operation ran the reconciliation of wafer_id
Reconciled(wafer_id) ==
    \/ last.op = "sync_wafer_progress" /\ last.wafer_id = wafer_id /\ last.result
    \/ last.op = "save_label" /\ last.wafer_id = wafer_id /\ last.result.success
    \/ last.op = "load_wafer_folders" /\ wafer_id \in last.candidates \ last.failed_ids

\* C1: after label_defect succeeds on row 0 of a store of N >= 2 freshly
\* ingested rows, the labeled record has label_count = 1 and an adc_type, and
\* the index row shows labeled_defects = 1, progress = round(1/N*100, 2) and
\* label_status = in_progress.
C1_LabelFirstRow ==
    [][(/\ last'.op = "save_label"
        /\ last'.result.success
        /\ last'.defect_index = 0
        /\ Unlabeled(database[FolderOfId(index, last'.wafer_id)])
        /\ Len(database[FolderOfId(index, last'.wafer_id)].rows) >= 2)
       => LET wafer_id == last'.wafer_id
              f == FolderOfId(index, wafer_id)
              N == Len(database[f].rows)
          IN /\ LabelCountOf(database'[f], last'.target) = 1
             /\ RowsOf(database'[f], last'.target) # <<>>
             /\ RowsOf(database'[f], last'.target)[1].adc_type # NULL_INT
             /\ index'[wafer_id].labeled_defects = 1
             /\ index'[wafer_id].progress = RoundHalfEven(10000, N)
             /\ index'[wafer_id].label_status = IN_PROGRESS]_vars

\* C2: the label_count of a defect record never decreases, and it is at least
\* 1 once the record has been labeled.
C2_LabelCountMonotone ==
    [][/\ \A f \in Folders :
            (HasTable(database[f]) /\ HasTable(database'[f])) =>
                \A i \in 1..Len(database[f].rows) :
                    LET d == database[f].rows[i].defect_id
                    IN RowsOf(database'[f], d) # <<>> =>
                          LabelCountOf(database'[f], d) >= LabelCountOf(database[f], d)
       /\ (last'.op = "save_label" /\ last'.target # 0) =>
             LabelCountOf(database'[FolderOfId(index, last'.wafer_id)], last'.target) >= 1]_vars

\* C3: a candidate of discover with neither an index row nor a detail store,
\* a report with at least one well-formed row and both images, ends with a
\* detail store, an index row with parsed_status = parsed and total_defects =
\* the number of parsed rows, and is counted in succeeded.
C3_FreshIngest ==
    last.op = "load_wafer_folders" =>
        \A wafer_id \in last.fresh_ids :
            LET f == FolderOfId(index, wafer_id)
            IN (/\ WellFormedLines(raw_data[f]) # <<>>
                /\ images[f].bright_field /\ images[f].dark_field)
               => /\ HasTable(database[f])
                  /\ index[wafer_id].parsed_status = PARSED
                  /\ index[wafer_id].total_defects = Cardinality(DistinctIds(raw_data[f]))
                  /\ wafer_id \notin last.failed_ids

\* C4 as stated: a reconciliation of a wafer whose report has k >= 1
\* well-formed and any number of malformed data lines ends with parsed_status
\* = parsed and total_defects = k.
C4_TotalIsWellFormedLines ==
    \A wafer_id \in WaferIds :
        (index[wafer_id].present /\ Reconciled(wafer_id)
         /\ WellFormedLines(raw_data[FolderOfId(index, wafer_id)]) # <<>>)
        => /\ index[wafer_id].parsed_status = PARSED
           /\ index[wafer_id].total_defects =
                 Len(WellFormedLines(raw_data[FolderOfId(index, wafer_id)]))

\* C4 as amended: a reconciliation of a wafer whose report has at least one
\* well-formed data line ends with parsed_status = parsed and total_defects =
\* the number of distinct defect ids among the well-formed data lines;
\* malformed lines are not counted and do not fail the wafer.
C4_TotalIsDistinctWellFormed ==
    \A wafer_id \in WaferIds :
        (index[wafer_id].present /\ Reconciled(wafer_id)
         /\ WellFormedLines(raw_data[FolderOfId(index, wafer_id)]) # <<>>)
        => /\ index[wafer_id].parsed_status = PARSED
           /\ index[wafer_id].total_defects =
                 Cardinality(DistinctIds(raw_data[FolderOfId(index, wafer_id)]))

C4_Witness ==
    \E wafer_id \in WaferIds :
        /\ index[wafer_id].present /\ Reconciled(wafer_id)
        /\ index[wafer_id].parsed_status = PARSED
        /\ MalformedLines(raw_data[FolderOfId(index, wafer_id)]) # <<>>
        /\ index[wafer_id].total_defects = 3

\* C5: reconcile twice in a row: the second call leaves the index row and the
\* detail store as the first call left them.
C5_ReconcileIdempotent ==
    [][(last'.op = "sync_wafer_progress" /\ last'.result /\ last'.again)
       => /\ index'[last'.wafer_id] = index[last'.wafer_id]
          /\ database' = database]_vars

C5_Witness ==
    /\ last.op = "sync_wafer_progress" /\ last.result /\ last.again
    /\ index[last.wafer_id].parsed_status = PARSED
    /\ index[last.wafer_id].total_defects >= 2

\* C6: reset of an indexed wafer removes its detail store, sets parsed_status
\* = unparsed and parse_error = NULL, and changes nothing else of its row, no
\* other row and no other store.
C6_ResetFrame ==
    [][(last'.op = "reset_wafer_status" /\ last'.result)
       => LET wafer_id == last'.wafer_id
              f == FolderOfId(index, wafer_id)
          IN /\ database'[f] = NoFile
             /\ index'[wafer_id] = [index[wafer_id] EXCEPT !.parsed_status = UNPARSED,
                                                           !.parse_error = NULL_TEXT]
             /\ index'[wafer_id].present
             /\ \A w \in WaferIds \ {wafer_id} : index'[w] = index[w]
             /\ \A g \in Folders \ {f} : database'[g] = database[g]]_vars

C6_Witness ==
    /\ last.op = "reset_wafer_status" /\ last.result
    /\ index[last.wafer_id].parsed_status = UNPARSED
    /\ index[last.wafer_id].total_defects >= 1
    /\ database[FolderOfId(index, last.wafer_id)] = NoFile
    /\ \E w \in WaferIds \ {last.wafer_id} :
          index[w].present /\ HasTable(database[FolderOfId(index, w)])

\* C7: an operation that leaves an existing index row with parsed_status =
\* error leaves its total_defects and labeled_defects as they were.
C7_ErrorKeepsCounters ==
    [][\A wafer_id \in WaferIds :
          (index[wafer_id].present /\ index'[wafer_id].parsed_status = PARSE_ERROR)
          => /\ index'[wafer_id].total_defects = index[wafer_id].total_defects
             /\ index'[wafer_id].labeled_defects = index[wafer_id].labeled_defects]_vars

C7_Witness ==
    \E wafer_id \in WaferIds :
        /\ index[wafer_id].present
        /\ index[wafer_id].parsed_status = PARSE_ERROR
        /\ index[wafer_id].total_defects >= 1
        /\ Reconciled(wafer_id) \/ (last.op = "enter_inner_layer" /\ last.wafer_id = wafer_id)

\* C8: discover counts every candidate once, in succeeded or in failed; a
\* failed candidate has parsed_status = error and a message in its index row,
\* and every candidate has been processed.
C8_DiscoverCounts ==
    last.op = "load_wafer_folders" =>
        /\ last.result.total_processed = Cardinality(last.candidates)
        /\ last.result.total_processed = last.result.success + last.result.failed
        /\ last.result.failed = Cardinality(last.failed_ids)
        /\ \A wafer_id \in last.candidates : index[wafer_id].present
        /\ \A wafer_id \in last.failed_ids :
              /\ index[wafer_id].parsed_status = PARSE_ERROR
              /\ index[wafer_id].parse_error \notin {NULL_TEXT, ""}

C8_Witness ==
    /\ last.op = "load_wafer_folders"
    /\ Cardinality(last.candidates) = 2
    /\ last.result.failed = 1
    /\ last.result.success = 1

\* C9: a detail store file is absent or holds the defect_info table with its
\* rows; no empty or table-less file is on disk.
C9_NoPartialStore ==
    \A f \in Folders :
        \/ database[f] = NoFile
        \/ HasTable(database[f]) /\ Len(database[f].rows) >= 1

\* C10: a reconcile that fails while recomputing the count or rebuilding the
\* store leaves the detail store that existed before the call.
C10_ReconcileKeepsStore ==
    [][(/\ last'.op = "sync_wafer_progress" /\ last'.result
        /\ index'[last'.wafer_id].parsed_status = PARSE_ERROR
        /\ raw_data[FolderOfId(index, last'.wafer_id)].kind = "text"
        /\ HasTable(database[FolderOfId(index, last'.wafer_id)]))
       => database'[FolderOfId(index, last'.wafer_id)] =
             database[FolderOfId(index, last'.wafer_id)]]_vars

\* C11: index rows are never deleted and keep their folder_path; a row
\* appears only for a candidate of discover, every candidate has a row after
\* discover, the id of a row is the id computed from its folder_path, and no
\* two rows have the same folder_path.
C11_OneRowPerCandidate ==
    [][/\ \A w \in WaferIds :
            /\ index[w].present =>
                  /\ index'[w].present
                  /\ index'[w].folder_path = index[w].folder_path
                  /\ index'[w].wafer_name = index[w].wafer_name
            /\ (~index[w].present /\ index'[w].present) =>
                  (last'.op = "load_wafer_folders" /\ w \in last'.candidates)
            /\ index'[w].present => calculate_wafer_id(index'[w].folder_path) = w
       /\ last'.op = "load_wafer_folders" =>
             \A w \in last'.candidates : index'[w].present
       /\ \A w1, w2 \in WaferIds :
             (index'[w1].present /\ index'[w2].present /\ w1 # w2)
             => index'[w1].folder_path # index'[w2].folder_path]_vars

C11_Witness ==
    /\ last.op = "load_wafer_folders"
    /\ Cardinality(last.candidates) = 2
    /\ last.fresh_ids = {}
    /\ \A w \in last.candidates : index[w].present /\ index[w].parsed_status = PARSED

\* C12: a successful export_wafer_kfl writes rows of the store only, each
\* once, and a row of the store is written exactly when export_all is set, or
\* the label_status of the index row is complete, or its adc_type is not NULL
\* and differs from its ai_adc_type.
C12_ExportSelection ==
    (last.op = "export_wafer_kfl" /\ last.result.ok) =>
        LET row == index[last.wafer_id]
            db == database[FolderOfId(index, last.wafer_id)]
            written == last.result.file.rows
        IN /\ \A i \in 1..Len(written) : \E j \in 1..Len(db.rows) :
                 /\ written[i].defect_id = db.rows[j].defect_id
                 /\ written[i].ai_adc_type = db.rows[j].ai_adc_type
                 /\ written[i].adc_type = db.rows[j].adc_type
           /\ \A i, k \in 1..Len(written) :
                 written[i].defect_id = written[k].defect_id => i = k
           /\ \A j \in 1..Len(db.rows) :
                 (\E i \in 1..Len(written) : written[i].defect_id = db.rows[j].defect_id)
                 <=> \/ last.export_all
                     \/ row.label_status = COMPLETE
                     \/ /\ db.rows[j].adc_type # NULL_INT
                        /\ db.rows[j].adc_type # db.rows[j].ai_adc_type

C12_Witness ==
    /\ last.op = "export_wafer_kfl" /\ last.result.ok /\ ~last.export_all
    /\ Len(last.result.file.rows) = 1
    /\ Len(database[FolderOfId(index, last.wafer_id)].rows) = 2

\* C13: export_wafer_kfl of an indexed wafer that has no defect_info table on
\* disk returns the failure "no detail store" and does not raise.
C13_ExportWithoutStore ==
    (/\ last.op = "export_wafer_kfl"
     /\ index[last.wafer_id].present
     /\ ~HasTable(database[FolderOfId(index, last.wafer_id)]))
    => /\ ~last.result.raised
       /\ ~last.result.ok
       /\ last.result.error = MSG_NO_STORE

\* C14: batch_export_kfl does not raise; it returns an archive when at least
\* one of its ids can be exported and a failure when none can.
C14_BatchSkipsFailures ==
    last.op = "batch_export_kfl" =>
        /\ ~last.result.raised
        /\ last.result.ok <=>
              \E i \in 1..Len(last.wafer_ids) :
                  index[last.wafer_ids[i]].present
                  /\ HasTable(database[FolderOfId(index, last.wafer_ids[i])])

\* C15: the archive of a batch of pairwise distinct ids has one entry per
\* wafer that was exported, and for each such wafer an entry with the rows
\* of that wafer.
C15_ArchiveHoldsEachUnit ==
    (/\ last.op = "batch_export_kfl" /\ last.result.ok
     /\ \A i, j \in 1..Len(last.wafer_ids) : last.wafer_ids[i] = last.wafer_ids[j] => i = j)
    => LET exported == {w \in {last.wafer_ids[i] : i \in 1..Len(last.wafer_ids)} :
                           index[w].present /\ HasTable(database[FolderOfId(index, w)])}
           entries == last.result.file
       IN /\ Len(entries) = Cardinality(exported)
          /\ \A w \in exported : \E i \in 1..Len(entries) :
                entries[i].rows = select_relabeled(database[FolderOfId(index, w)])

\* C16: no operation lets an exception reach its caller.
C16_NoOperationRaises ==
    last.op \in {"export_wafer_kfl", "batch_export_kfl"} => ~last.result.raised

C18_ProgressRounded ==
    last.op = "derived" =>
        LET labeled == last.labeled_defects
            total == last.total_defects
            diff == last.progress * total - labeled * 10000
        IN /\ total = 0 => last.progress = 0
           /\ total > 0 => (2 * diff <= total /\ -2 * diff <= total)
           /\ 0 <= last.progress /\ last.progress <= 10000

C18_Witness ==
    /\ last.op = "derived"
    /\ last.labeled_defects = 2 /\ last.total_defects = 3
    /\ last.progress = 6667

\* C19: two index rows whose folder_path strings denote the same folder have
\* the same id, so that one folder has one row however the root was written;
\* rows of different folders have different ids.
C19_OneIdPerFolder ==
    \A w1, w2 \in WaferIds :
        (index[w1].present /\ index[w2].present)
        => (FolderOf(index[w1].folder_path) = FolderOf(index[w2].folder_path) <=> w1 = w2)

\* C20: after discover or reconcile of a wafer whose report has a header and
\* no well-formed data line, its index row has parsed_status = error with a
\* non-empty message and the wafer has no detail store.
C20_NoDataLineIsError ==
    \A wafer_id \in WaferIds :
        (/\ index[wafer_id].present
         /\ \/ last.op = "load_wafer_folders" /\ wafer_id \in last.candidates
            \/ last.op = "sync_wafer_progress" /\ last.wafer_id = wafer_id /\ last.result
         /\ raw_data[FolderOfId(index, wafer_id)].kind = "text"
         /\ raw_data[FolderOfId(index, wafer_id)].lines # <<>>
         /\ WellFormedLines(raw_data[FolderOfId(index, wafer_id)]) = <<>>)
        => /\ index[wafer_id].parsed_status = PARSE_ERROR
           /\ index[wafer_id].parse_error \notin {NULL_TEXT, ""}
           /\ database[FolderOfId(index, wafer_id)] = NoFile

C20_Witness ==
    /\ last.op = "sync_wafer_progress" /\ last.result
    /\ index[last.wafer_id].total_defects >= 1
    /\ raw_data[FolderOfId(index, last.wafer_id)] = Report(0, <<Header, ShortLine>>)
    /\ index[last.wafer_id].parsed_status = PARSE_ERROR
    /\ database[FolderOfId(index, last.wafer_id)] = NoFile

\* C21: a discovery candidate that already has an index row is reconciled by
\* the discovery, whether or not it has a detail store and whatever its
\* parsed_status: it is never ingested as fresh and never fails into the
\* except branch, its store becomes the store rebuilt from the report, and
\* its row is recomputed from that store (or marked as an error when the
\* rebuild leaves none).
C21_KnownCandidateReconciled ==
    [][last'.op = "load_wafer_folders" =>
          \A w \in last'.candidates :
             index[w].present =>
                LET f == FolderOfId(index, w)
                    rebuilt == create_inner_database(raw_data[f], 0)
                IN /\ w \notin last'.fresh_ids
                   /\ w \notin last'.failed_ids
                   /\ database'[f] = rebuilt
                   /\ index'[w] = IF HasTable(rebuilt)
                                  THEN update_counts(index[w], rebuilt)
                                  ELSE mark_error(index[w], index'[w].parse_error)
                   /\ ~HasTable(rebuilt) => index'[w].parse_error # NULL_TEXT]_vars

\* a discovery has reconciled a known wafer whose bright field image is
\* missing: the fresh path would have refused the folder
C21_Witness ==
    /\ last.op = "load_wafer_folders"
    /\ last.candidates = {calculate_wafer_id(Wafer1)}
    /\ last.fresh_ids = {} /\ last.failed_ids = {}
    /\ ~images[Wafer1].bright_field
    /\ index[calculate_wafer_id(Wafer1)].parsed_status = PARSED
    /\ HasTable(database[Wafer1])

\* C22: after a discovery, every candidate (new or already indexed) with a
\* missing bright field or dark field image has parsed_status = error and a
\* message.
C22_MissingImageIsError ==
    last.op = "load_wafer_folders" =>
       \A w \in last.candidates :
          (~images[FolderOfId(index, w)].bright_field
              \/ ~images[FolderOfId(index, w)].dark_field) =>
             /\ index[w].parsed_status = PARSE_ERROR
             /\ index[w].parse_error \notin {NULL_TEXT, ""}

\* C23: a reconcile of an indexed wafer whose report no longer exists sets
\* parsed_status = error with a message and changes nothing else: no detail
\* store is deleted or modified, and total_defects, labeled_defects, progress
\* and label_status of the row are unchanged.
C23_MissingReportAborts ==
    [][(/\ last'.op = "sync_wafer_progress"
        /\ last'.result
        /\ raw_data[FolderOfId(index, last'.wafer_id)].kind = "absent") =>
          /\ index'[last'.wafer_id] =
                [index[last'.wafer_id] EXCEPT !.parsed_status = PARSE_ERROR,
                                              !.parse_error = MSG_RAW_MISSING]
          /\ \A w \in WaferIds \ {last'.wafer_id} : index'[w] = index[w]
          /\ database' = database]_vars

\* a reconcile found the report gone and left the store with its rows
C23_Witness ==
    /\ last.op = "sync_wafer_progress" /\ last.result
    /\ raw_data[FolderOfId(index, last.wafer_id)].kind = "absent"
    /\ HasTable(database[FolderOfId(index, last.wafer_id)])
    /\ index[last.wafer_id].parsed_status = PARSE_ERROR
    /\ index[last.wafer_id].parse_error = MSG_RAW_MISSING
    /\ index[last.wafer_id].total_defects >= 1

\* C24: in a reconcile that reaches the rebuild, the store is created twice
\* when the rebuilt store has no row while the report implied more than
\* zero, and once otherwise.
C24_RetryOnce ==
    [][(/\ last'.op = "sync_wafer_progress"
        /\ last'.result
        /\ raw_data[FolderOfId(index, last'.wafer_id)].kind = "text"
        /\ raw_data[FolderOfId(index, last'.wafer_id)].lines # <<>>) =>
          LET f == FolderOfId(index, last'.wafer_id)
              implied == Len(raw_data[f].lines) - 1
              stored == Len(executemany(<<>>, insert_data(Tail(raw_data[f].lines))))
          IN sync_progress(index[last'.wafer_id], raw_data[f], database[f]).creations
                = IF stored = 0 /\ implied > 0 THEN 2 ELSE 1]_vars

\* C25: in every index row, parse_error is non-null exactly when
\* parsed_status is error.
C25_ErrorIffMessage ==
    \A w \in WaferIds :
       index[w].present =>
          (index[w].parse_error # NULL_TEXT <=> index[w].parsed_status = PARSE_ERROR)

\* a row has been reset: it is unparsed and has no message
C25_Witness ==
    /\ last.op = "reset_wafer_status" /\ last.result
    /\ index[last.wafer_id].parsed_status = UNPARSED
    /\ index[last.wafer_id].parse_error = NULL_TEXT

\* C26: save_label with a defect index outside [0, number of rows) returns a
\* failure and changes neither the detail store nor the index.
C26_OutOfRangeFails ==
    [][(/\ last'.op = "save_label"
        /\ index[last'.wafer_id].present
        /\ HasTable(database[FolderOfId(index, last'.wafer_id)])
        /\ (last'.defect_index < 0
              \/ last'.defect_index >= Len(database[FolderOfId(index, last'.wafer_id)].rows))) =>
          /\ ~last'.result.success
          /\ database' = database
          /\ index' = index]_vars

\* C30: every index row has labeled_defects = 0, progress = 0 and
\* label_status = not_started.
C30_NothingCountsAsLabeled ==
    \A w \in WaferIds :
       index[w].present =>
          /\ index[w].labeled_defects = 0
          /\ index[w].progress = 0
          /\ index[w].label_status = NOT_STARTED

\* a label has been saved on the first row with a type other than the
\* machine's, and the row of the wafer is a parsed one with its defects
C30_Witness ==
    /\ last.op = "save_label" /\ last.result.success /\ last.target # 0
    /\ index[last.wafer_id].parsed_status = PARSED
    /\ index[last.wafer_id].total_defects = InitDefects
    /\ index[last.wafer_id].labeled_defects = 0

\* C27: for an id without an index row, save_label, get_wafer_data,
\* sync_wafer_progress, reset_wafer_status, export_wafer_kfl and
\* enter_inner_layer each return the failure "wafer does not exist" and change
\* neither the index nor any detail store.
C27_UnknownIdFails ==
    [][(/\ last'.op \in {"save_label", "get_wafer_data", "sync_wafer_progress",
                         "reset_wafer_status", "export_wafer_kfl", "enter_inner_layer"}
        /\ ~index[last'.wafer_id].present) =>
          /\ index' = index
          /\ database' = database
          /\ CASE last'.op \in {"sync_wafer_progress", "reset_wafer_status"} ->
                     last'.result = FALSE
               [] last'.op = "export_wafer_kfl" ->
                     /\ ~last'.result.raised /\ ~last'.result.ok
                     /\ last'.result.error = MSG_NO_WAFER
               [] OTHER ->
                     /\ ~last'.result.success
                     /\ last'.result.error = MSG_NO_WAFER]_vars

\* an export was asked for an id that has no row while both wafers are
\* indexed and have their stores
C27_Witness ==
    /\ last.op = "export_wafer_kfl"
    /\ last.wafer_id = UnknownId
    /\ last.result.error = MSG_NO_WAFER
    /\ \A f \in Folders : index[calculate_wafer_id(f)].present /\ HasTable(database[f])

C31_ParsedRowHasItsStore ==
    env_steps = 0 =>
       \A w \in WaferIds :
          (index[w].present /\ index[w].parsed_status = PARSED) =>
             /\ HasTable(database[FolderOfId(index, w)])
             /\ Len(database[FolderOfId(index, w)].rows) = index[w].total_defects
             /\ index[w].total_defects >= 1

\* C32: sync_wafer_progress returns true exactly when the id has an index
\* row, whatever the outcome of the reconciliation, and a discovery counts
\* every candidate that already had a row as a success, never as a failure,
\* whatever parsed_status its row ends with.
C32_SuccessIgnoresOutcome ==
    [][/\ last'.op = "sync_wafer_progress" =>
             last'.result = index[last'.wafer_id].present
       /\ last'.op = "load_wafer_folders" =>
             LET known == {w \in last'.candidates : index[w].present}
             IN /\ known \cap last'.failed_ids = {}
                /\ last'.result.success = Cardinality(last'.candidates \ last'.failed_ids)
                /\ last'.result.success >= Cardinality(known)]_vars

\* a discovery has counted two successes and no failure, and one of the two
\* rows says error
C32_Witness ==
    /\ last.op = "load_wafer_folders"
    /\ last.result = [total_processed |-> 2, success |-> 2, failed |-> 0]
    /\ \E w \in last.candidates :
          /\ index[w].parsed_status = PARSE_ERROR
          /\ index[w].parse_error = MSG_CREATE_FAILED

\* C33: after a reconciliation from a report in which several well-formed
\* data lines have the same defect_id, the store has one row per distinct
\* defect_id, each with the machine type of the last well-formed line of
\* that id, and the number of rows and total_defects are the number of
\* distinct ids.
C33_LastDuplicateWins ==
    \A wafer_id \in WaferIds :
       (/\ index[wafer_id].present
        /\ Reconciled(wafer_id)
        /\ Len(WellFormedLines(raw_data[FolderOfId(index, wafer_id)]))
              > Cardinality(DistinctIds(raw_data[FolderOfId(index, wafer_id)]))) =>
          LET raw == raw_data[FolderOfId(index, wafer_id)]
              db == database[FolderOfId(index, wafer_id)]
          IN /\ HasTable(db)
             /\ Len(db.rows) = Cardinality(DistinctIds(raw))
             /\ index[wafer_id].total_defects = Cardinality(DistinctIds(raw))
             /\ \A id \in DistinctIds(raw) :
                   LET same == SelectSeq(WellFormedLines(raw), LAMBDA l : l.defect_id = id)
                   IN /\ Len(RowsOf(db, id)) = 1
                      /\ RowsOf(db, id)[1].ai_adc_type = same[Len(same)].ai_adc_type

\* the report with the lines of ids 1, 2, 1 has been reconciled: two rows,
\* and the row of id 1 has the type of the third line
C33_Witness ==
    \E wafer_id \in WaferIds :
       /\ index[wafer_id].present /\ Reconciled(wafer_id)
       /\ raw_data[FolderOfId(index, wafer_id)] = Report(0, <<Header, D(1, 1), D(2, 1), D(1, 2)>>)
       /\ index[wafer_id].total_defects = 2
       /\ RowsOf(database[FolderOfId(index, wafer_id)], 1)[1].ai_adc_type = 2

====
